---- MODULE Spec2Model ----
(***************************************************************************)
(* Model of custom_components/vaillant_plus: the weekly start-time text    *)
(* entity (text.py: encode_timeslots_from_list,                            *)
(* parse_display_string_to_slots, VaillantTimeTextEntity) and the sensor   *)
(* entity's raw-value transforms (sensor.py: VaillantSensorEntity).        *)
(*                                                                         *)
(* A Python str is a sequence of one-character strings, so that slicing,   *)
(* splitting, stripping, parsing and formatting are computed and not       *)
(* assumed.  Python's None is the one-element sequence NoneValue, whose    *)
(* element is not a character, so it differs from every str.               *)
(***************************************************************************)
EXTENDS Integers, Sequences, FiniteSets, TLC

VARIABLES
    native_value,      \* VaillantTimeTextEntity._attr_native_value
    available,         \* VaillantTimeTextEntity._attr_available
    last,              \* what the last call on the text entity did; its field
                       \* vouched tells whether the value now shown came from
                       \* the device or from a control call that returned
    cpc,               \* codec pipeline: position
    cin,               \* codec pipeline: the input drawn
    cslots,            \* codec pipeline: result of parse_display_string_to_slots
    cwire,             \* codec pipeline: result of encode_timeslots_from_list
    sensor_value,      \* VaillantSensorEntity._attr_native_value, per key
    sensor_available,  \* VaillantSensorEntity._attr_available, per key
    slast              \* what the last call on a sensor entity did

vars == <<native_value, available, last, cpc, cin, cslots, cwire,
          sensor_value, sensor_available, slast>>

textVars   == <<native_value, available, last>>
codecVars  == <<cpc, cin, cslots, cwire>>
sensorVars == <<sensor_value, sensor_available, slast>>

-----------------------------------------------------------------------------
(* Python values *)

NoneValue == <<"<None>">>

Digits    == <<"0","1","2","3","4","5","6","7","8","9">>
HexUpper  == <<"0","1","2","3","4","5","6","7","8","9","A","B","C","D","E","F">>
HexLower  == <<"0","1","2","3","4","5","6","7","8","9","a","b","c","d","e","f">>
UpperLetters == <<"A","B","C","D","E","F","G","H","I","J","K","L","M",
                  "N","O","P","Q","R","S","T","U","V","W","X","Y","Z">>
LowerLetters == <<"a","b","c","d","e","f","g","h","i","j","k","l","m",
                  "n","o","p","q","r","s","t","u","v","w","x","y","z">>

Range(s) == {s[i] : i \in DOMAIN s}

IndexOf(c, s) == CHOOSE i \in DOMAIN s : s[i] = c

Min(a, b) == IF a < b THEN a ELSE b
Max(a, b) == IF a > b THEN a ELSE b

\* s[a:b] of Python, 0-based, half-open, clipped to the string.
Slice(s, a, b) == SubSeq(s, a + 1, Min(b, Len(s)))

\* str.strip(): of the whitespace characters the inputs here hold the space.
IsSpace(c) == c = " "

RECURSIVE LStrip(_)
LStrip(s) == IF s # <<>> /\ IsSpace(Head(s)) THEN LStrip(Tail(s)) ELSE s

RECURSIVE RStrip(_)
RStrip(s) == IF s # <<>> /\ IsSpace(s[Len(s)])
             THEN RStrip(SubSeq(s, 1, Len(s) - 1)) ELSE s

Strip(s) == RStrip(LStrip(s))

\* str.lower()
UpperSet == Range(UpperLetters)
LowerOf  == [c \in UpperSet |-> LowerLetters[IndexOf(c, UpperLetters)]]

LowerChar(c) == IF c \in UpperSet THEN LowerOf[c] ELSE c

Lower(s) == [i \in DOMAIN s |-> LowerChar(s[i])]

\* c in s
Contains(s, c) == \E i \in DOMAIN s : s[i] = c

RECURSIVE FirstIndexFrom(_, _, _)
FirstIndexFrom(s, c, i) == IF s[i] = c THEN i ELSE FirstIndexFrom(s, c, i + 1)

\* s.index(c) + 1, for a string that contains c
FirstIndex(s, c) == FirstIndexFrom(s, c, 1)

\* s.split(c, 1) for a string that contains c: <<before, after>>
SplitOnce(s, c) == LET i == FirstIndex(s, c)
                   IN  <<SubSeq(s, 1, i - 1), SubSeq(s, i + 1, Len(s))>>

\* s.split(c)
RECURSIVE Split(_, _)
Split(s, c) == IF Contains(s, c)
               THEN <<SplitOnce(s, c)[1]>> \o Split(SplitOnce(s, c)[2], c)
               ELSE <<s>>

\* sep.join(parts)
RECURSIVE Join(_, _)
Join(parts, sep) == IF parts = <<>> THEN <<>>
                    ELSE IF Len(parts) = 1 THEN parts[1]
                    ELSE parts[1] \o sep \o Join(Tail(parts), sep)

\* decimal digits of n >= 0
RECURSIVE DecStr(_)
DecStr(n) == IF n < 10 THEN <<Digits[n + 1]>>
             ELSE DecStr(n \div 10) \o <<Digits[(n % 10) + 1]>>

RECURSIVE ZeroPad(_, _)
ZeroPad(s, w) == IF Len(s) >= w THEN s ELSE ZeroPad(<<"0">> \o s, w)

\* f"{n:02d}": the sign counts towards the width, zeros follow the sign
Fmt02d(n) == IF n >= 0 THEN ZeroPad(DecStr(n), 2)
             ELSE <<"-">> \o ZeroPad(DecStr(-n), 1)

RECURSIVE HexStr(_)
HexStr(n) == IF n < 16 THEN <<HexUpper[n + 1]>>
             ELSE HexStr(n \div 16) \o <<HexUpper[(n % 16) + 1]>>

\* f"{n:02X}" for n >= 0
Fmt02X(n) == ZeroPad(HexStr(n), 2)

\* the value of each character that is a digit in some base up to 16
DigitChars == Range(HexUpper) \cup Range(HexLower)
DigitOf    == [c \in DigitChars |->
                 IF c \in Range(HexUpper) THEN IndexOf(c, HexUpper) - 1
                 ELSE IndexOf(c, HexLower) - 1]

\* value of one digit in the base, -1 when it is none
DigitVal(c, base) ==
    IF c \in DigitChars /\ DigitOf[c] < base THEN DigitOf[c] ELSE -1

\* digits with single underscores between them
WellFormedDigits(t, base) ==
    /\ t # <<>>
    /\ \A i \in DOMAIN t : t[i] = "_" \/ DigitVal(t[i], base) >= 0
    /\ t[1] # "_" /\ t[Len(t)] # "_"
    /\ \A i \in 1..(Len(t) - 1) : ~(t[i] = "_" /\ t[i + 1] = "_")

RECURSIVE DigitsValue(_, _, _)
DigitsValue(t, base, acc) ==
    IF t = <<>> THEN acc
    ELSE IF Head(t) = "_" THEN DigitsValue(Tail(t), base, acc)
    ELSE DigitsValue(Tail(t), base, acc * base + DigitVal(Head(t), base))

\* int(s, 16) accepts a "0x" / "0X" prefix, and an underscore after it
HasHexPrefix(b, base) ==
    base = 16 /\ Len(b) >= 2 /\ b[1] = "0" /\ b[2] \in {"x", "X"}

AfterPrefix(b) ==
    LET r == SubSeq(b, 3, Len(b))
    IN  IF r # <<>> /\ Head(r) = "_" THEN Tail(r) ELSE r

\* int(s, base) on a str: surrounding whitespace, an optional sign, an
\* optional base prefix, digits.  ok = FALSE is ValueError.
PyInt(s, base) ==
    LET t    == Strip(s)
        sgn  == t # <<>> /\ Head(t) \in {"+", "-"}
        b    == IF sgn THEN Tail(t) ELSE t
        body == IF HasHexPrefix(b, base) THEN AfterPrefix(b) ELSE b
    IN  IF WellFormedDigits(body, base)
        THEN [ok |-> TRUE,
              val |-> IF sgn /\ Head(t) = "-" THEN 0 - DigitsValue(body, base, 0)
                      ELSE DigitsValue(body, base, 0)]
        ELSE [ok |-> FALSE, val |-> 0]

-----------------------------------------------------------------------------
(* text.py: the pure functions *)

MaxHour   == 23
MaxMinute == 59
NumGroups == 3
GroupLen  == 8
WireLen   == 24

Sentinel == <<"0","0","0","0","0","0","0","0">>

Clamp(v, hi) == Max(0, Min(hi, v))

\* EncodeSlot with the hour limit off by one: min(24, int(sh))
EncodeSlotHour24(slot) ==
    LET sh == Clamp(slot[1], MaxHour + 1)
        eh == Clamp(slot[3], MaxHour + 1)
        sm == Clamp(slot[2], MaxMinute)
        em == Clamp(slot[4], MaxMinute)
    IN  Fmt02X(sh) \o Fmt02X(sm) \o Fmt02X(eh) \o Fmt02X(em)

\* one iteration of the loop of encode_timeslots_from_list, for i < len(slots)
EncodeSlot(slot) ==
    LET sh == Clamp(slot[1], MaxHour)
        eh == Clamp(slot[3], MaxHour)
        sm == Clamp(slot[2], MaxMinute)
        em == Clamp(slot[4], MaxMinute)
    IN  Fmt02X(sh) \o Fmt02X(sm) \o Fmt02X(eh) \o Fmt02X(em)

EncodePart(slots, i) == IF i < Len(slots) THEN EncodeSlot(slots[i + 1]) ELSE Sentinel

\* encode_timeslots_from_list(slots): always returns, never raises
encode_timeslots_from_list(slots) ==
    Join([i \in 1..NumGroups |-> EncodePart(slots, i - 1)], <<>>)

InRange(sh, sm, eh, em) ==
    /\ 0 <= sh /\ sh <= MaxHour /\ 0 <= eh /\ eh <= MaxHour
    /\ 0 <= sm /\ sm <= MaxMinute /\ 0 <= em /\ em <= MaxMinute

SegError(why) == [ok |-> FALSE, why |-> why, slot |-> <<0, 0, 0, 0>>]

\* the body of the loop of parse_display_string_to_slots for one segment p;
\* ok = FALSE is the ValueError raised (by the function or by int())
ParseSegment(p) ==
    IF ~Contains(p, "-") THEN SegError("missing '-'")
    ELSE LET start == SplitOnce(p, "-")[1]
             end   == SplitOnce(p, "-")[2]
         IN  IF ~Contains(start, ":") \/ ~Contains(end, ":")
             THEN SegError("missing ':'")
             ELSE LET sh == PyInt(SplitOnce(start, ":")[1], 10)
                      sm == PyInt(SplitOnce(start, ":")[2], 10)
                      eh == PyInt(SplitOnce(end, ":")[1], 10)
                      em == PyInt(SplitOnce(end, ":")[2], 10)
                  IN  IF ~(sh.ok /\ sm.ok /\ eh.ok /\ em.ok)
                      THEN SegError("not a number")
                      ELSE IF ~InRange(sh.val, sm.val, eh.val, em.val)
                      THEN SegError("out of range")
                      ELSE [ok |-> TRUE, why |-> "",
                            slot |-> <<sh.val, sm.val, eh.val, em.val>>]

\* [p.strip() for p in s.split(",") if p.strip()]
NonEmptyParts(s) ==
    LET raw == Split(s, ",")
    IN  SelectSeq([i \in DOMAIN raw |-> Strip(raw[i])], LAMBDA p : p # <<>>)

\* parts[:3] replaced by parts: every segment is parsed
FirstThreeAll(parts) == parts

\* parts[:3]
FirstThree(parts) == SubSeq(parts, 1, Min(NumGroups, Len(parts)))

ClearTokens == { <<>>, <<"0">> }
NullTokens  == { <<"n","o","n","e">>, <<"n","u","l","l">> }

\* parse_display_string_to_slots(display) for a str: ok = FALSE is ValueError
parse_display_string_to_slots(display) ==
    LET s == Strip(display)
    IN  IF s \in ClearTokens \/ Lower(s) \in NullTokens
        THEN [ok |-> TRUE, slots |-> <<>>]
        ELSE LET parts == FirstThree(NonEmptyParts(s))
                 res   == [i \in DOMAIN parts |-> ParseSegment(parts[i])]
             IN  IF \E i \in DOMAIN res : ~res[i].ok
                 THEN [ok |-> FALSE, slots |-> <<>>]
                 ELSE [ok |-> TRUE, slots |-> [i \in DOMAIN res |-> res[i].slot]]

\* FormatRange with the two middle fields exchanged
FormatRangeSwapped(sh, sm, eh, em) ==
    Fmt02d(sh) \o <<":">> \o Fmt02d(eh) \o <<"-">> \o Fmt02d(sm) \o <<":">> \o Fmt02d(em)

\* f"{sh:02d}:{sm:02d}-{eh:02d}:{em:02d}"
FormatRange(sh, sm, eh, em) ==
    Fmt02d(sh) \o <<":">> \o Fmt02d(sm) \o <<"-">> \o Fmt02d(eh) \o <<":">> \o Fmt02d(em)

CommaSpace == <<",", " ">>
ZeroText   == <<"0">>

\* one iteration of the loop of update_from_latest_data: the strings the
\* 8-character group appends to formatted_times (none when it is the
\* sentinel, none when int() raises and the except clause continues)
DecodeGroup(slot) ==
    IF slot = Sentinel THEN <<>>
    ELSE LET sh == PyInt(Slice(slot, 0, 2), 16)
             sm == PyInt(Slice(slot, 2, 4), 16)
             eh == PyInt(Slice(slot, 4, 6), 16)
             em == PyInt(Slice(slot, 6, 8), 16)
         IN  IF sh.ok /\ sm.ok /\ eh.ok /\ em.ok
             THEN << FormatRange(sh.val, sm.val, eh.val, em.val) >>
             ELSE <<>>

\* [val[i : i + 8] for i in range(0, 24, 8)]
WireGroups(val) == [g \in 1..NumGroups |-> Slice(val, (g - 1) * GroupLen, g * GroupLen)]

FormattedTimes(val) ==
    LET slots == WireGroups(val)
    IN  DecodeGroup(slots[1]) \o DecodeGroup(slots[2]) \o DecodeGroup(slots[3])

\* ", ".join(formatted_times) if formatted_times else "0"
DisplayOf(formatted_times) ==
    IF formatted_times # <<>> THEN Join(formatted_times, CommaSpace) ELSE ZeroText

\* the text async_set_value stores for the slots it sent
CanonicalText(slots) ==
    IF slots # <<>>
    THEN Join([i \in DOMAIN slots |->
                 FormatRange(slots[i][1], slots[i][2], slots[i][3], slots[i][4])],
              CommaSpace)
    ELSE ZeroText

\* a value of the data mapping under the entity's key:
\* kind "absent" (data.get gives None), "other" (not a str), "str"
Absent      == [kind |-> "absent", s |-> <<>>]
OtherVal(s) == [kind |-> "other", s |-> s]
StrVal(s)   == [kind |-> "str", s |-> s]

\* IsWire with the length test len(val) >= 24
IsWireAtLeast(val) == val.kind = "str" /\ Len(val.s) >= WireLen

\* isinstance(val, str) and len(val) == 24
IsWire(val) == val.kind = "str" /\ Len(val.s) = WireLen

\* update_from_latest_data: the value and availability it assigns
DecodedValue(val) == IF IsWire(val) THEN DisplayOf(FormattedTimes(val.s)) ELSE NoneValue
DecodedAvailable(val) == IsWire(val)

-----------------------------------------------------------------------------
(* Inputs: the texts, slot lists and wire strings the operations are run on *)

t0700     == <<"0","7",":","0","0">>
t0900     == <<"0","9",":","0","0">>
t1830     == <<"1","8",":","3","0">>
t2205     == <<"2","2",":","0","5">>
t0000     == <<"0","0",":","0","0">>
t7_0      == <<"7",":","0">>
t9_0      == <<"9",":","0">>
tNeg0_30  == <<"-","0",":","3","0">>
tNeg9_00  == <<"-","9",":","0","0">>
t0700x    == <<"0","7","0","0">>
t0900x    == <<"0","9","0","0">>
t2400     == <<"2","4",":","0","0">>
t2561     == <<"2","5",":","6","1">>
tab00     == <<"a","b",":","0","0">>

Dash == <<"-">>

\* segments a user may type, well-formed and not
SegCanonA   == t0700 \o Dash \o t0900                  \* 07:00-09:00
SegCanonB   == t1830 \o Dash \o t2205                  \* 18:30-22:05
SegZero     == t0000 \o Dash \o t0000                  \* 00:00-00:00
SegShort    == t7_0 \o Dash \o t9_0                    \* 7:0-9:0
SegTwoDash  == t0700 \o Dash \o t0900 \o Dash \o t1830 \* 07:00-09:00-18:30
SegNegZero  == t0700 \o Dash \o tNeg0_30               \* 07:00--0:30
SegNegEnd   == t0700 \o Dash \o tNeg9_00               \* 07:00--9:00
SegNoColon  == t0700x \o Dash \o t0900x                \* 0700-0900
SegNoDash   == t0700                                   \* 07:00
SegRange    == t2400 \o Dash \o t2561                  \* 24:00-25:61
SegAlpha    == tab00 \o Dash \o t0900                  \* ab:00-09:00

SegPool == { SegCanonA, SegCanonB, SegZero, SegShort, SegTwoDash, SegNegZero,
             SegNegEnd, SegNoColon, SegNoDash, SegRange, SegAlpha }

MaxSegs == 3

\* sequences over S of length 0..n
SeqsUpTo(S, n) == UNION { [1..k -> S] : k \in 0..n }

\* texts whose segments are not joined by ", ", and the clear tokens
SpecialTexts ==
    { <<>>, <<"0">>, <<" ", "0", " ">>, <<"N","o","n","e">>, <<"n","u","l","l">>,
      <<" ">> \o SegCanonA \o <<" ">>,
      SegCanonA \o <<",">> \o SegCanonB,
      SegCanonA \o <<",", ",", " ">> \o SegCanonB \o <<",">>,
      t0700 \o <<" ">> \o Dash \o <<" ">> \o t0900 }

CodecTexts == { Join(segs, CommaSpace) : segs \in SeqsUpTo(SegPool, MaxSegs) }
              \cup SpecialTexts

\* slots handed to the encoder: in range and out of range
SlotPool == { <<0, 0, 0, 0>>, <<7, 0, 9, 0>>, <<18, 30, 22, 5>>, <<10, 11, 12, 13>>,
              <<23, 59, 0, 1>>, <<25, 61, 5, 5>>, <<-1, -5, 24, 60>> }

MaxSlots == 4

\* every hour and every minute once, as a one-slot list
FieldSweep == { << <<h, m, MaxHour - h, MaxMinute - m>> >> :
                  h \in 0..MaxHour, m \in 0..MaxMinute }

CodecSlotLists == SeqsUpTo(SlotPool, MaxSlots) \cup FieldSweep

\* 8-character groups a device may report
GrpA      == <<"0","7","0","0","0","9","0","0">>
GrpB      == <<"1","8","0","0","2","2","0","0">>
GrpC      == <<"1","2","0","0","1","6","0","0">>
GrpMixed  == <<"1","7","3","b","1","E","0","5">>
GrpBig    == <<"F","F","0","0","0","9","6","4">>
GrpBad    == <<"G","G","G","G","G","G","G","G">>
GrpBadEnd == <<"0","7","0","0","0","9","0","G">>
GrpSigned == <<"-","7","0","0","0","9","0","0">>

GroupPool == { Sentinel, GrpA, GrpB, GrpC, GrpMixed, GrpBig, GrpBad, GrpBadEnd, GrpSigned }

CodecWires == { g[1] \o g[2] \o g[3] : g \in [1..NumGroups -> GroupPool] }

-----------------------------------------------------------------------------
(* text.py: VaillantTimeTextEntity *)

Key == "Start_Time_CH1"

\* how the awaited control_device call can end, as lines 154-165 tell the
\* cases apart: it returns a truthy value ("True"), returns None, returns
\* False, or raises
ControlOutcomes == {"True", "None", "False", "Raise"}

NoCall == "-"

\* SetSlots with the ValueError swallowed: an invalid text clears the schedule
SetSlotsSwallowed(value) ==
    LET display == Strip(value)
    IN  IF display \in ClearTokens THEN [ok |-> TRUE, slots |-> <<>>]
        ELSE [ok |-> TRUE, slots |-> parse_display_string_to_slots(display).slots]

\* lines 141-149: the slots to send; ok = FALSE is the ValueError caught there
SetSlots(value) ==
    LET display == Strip(value)
    IN  IF display \in ClearTokens THEN [ok |-> TRUE, slots |-> <<>>]
        ELSE parse_display_string_to_slots(display)

\* the argument of control_device: {self._key: hexstr}
ControlArg(slots) == [k \in {Key} |-> encode_timeslots_from_list(slots)]

\* lines 154-159: resp after the try/except around the call
RespOf(outcome) == IF outcome = "Raise" THEN "None" ELSE outcome

\* Rejects with the test `if not resp` inverted by mistake: nothing rejects
RejectsNothing(resp) == resp = "Rejected"

\* line 163: resp is False
Rejects(resp) == resp = "False"

Unchanged(nv, av, calls, outcome) ==
    [value |-> nv, available |-> av, calls |-> calls, outcome |-> outcome,
     pushed |-> FALSE, raised |-> FALSE, slots |-> <<>>]

\* async_set_value(value) on an entity showing nv / av, when the control call,
\* if it is made, ends with `outcome`: the state it leaves and what it did
SetValueEffect(value, outcome, nv, av) ==
    IF value.kind # "str" THEN Unchanged(nv, av, <<>>, NoCall)
    ELSE LET p == SetSlots(value.s)
         IN  IF ~p.ok THEN Unchanged(nv, av, <<>>, NoCall)
             ELSE IF Rejects(RespOf(outcome))
             THEN Unchanged(nv, av, <<ControlArg(p.slots)>>, outcome)
             ELSE [value |-> CanonicalText(p.slots), available |-> TRUE,
                   calls |-> <<ControlArg(p.slots)>>, outcome |-> outcome,
                   pushed |-> TRUE, raised |-> FALSE, slots |-> p.slots]

LastInit ==
    [op |-> "init", input |-> Absent, outcome |-> NoCall,
     pre_value |-> NoneValue, pre_available |-> TRUE,
     calls |-> <<>>, pushed |-> FALSE, raised |-> FALSE, slots |-> <<>>,
     vouched |-> TRUE]

\* __init__: no value yet; availability is whatever the base class left
TextEntityInit ==
    /\ native_value = NoneValue
    /\ available \in BOOLEAN
    /\ last = LastInit

update_from_latest_data(val) ==
    /\ native_value' = DecodedValue(val)
    /\ available' = DecodedAvailable(val)
    /\ last' = [op |-> "update", input |-> val, outcome |-> NoCall,
                pre_value |-> native_value, pre_available |-> available,
                calls |-> <<>>, pushed |-> FALSE, raised |-> FALSE, slots |-> <<>>,
                vouched |-> TRUE]

async_set_value(value, outcome) ==
    \E e \in { SetValueEffect(value, outcome, native_value, available) } :
        /\ native_value' = e.value
        /\ available' = e.available
        /\ last' = [op |-> "set", input |-> value, outcome |-> e.outcome,
                    pre_value |-> native_value, pre_available |-> available,
                    calls |-> e.calls, pushed |-> e.pushed, raised |-> e.raised,
                    slots |-> e.slots,
                    vouched |-> IF ~e.pushed THEN last.vouched
                                ELSE \/ e.outcome # "Raise"
                                     \/ last.vouched /\ e.value = native_value]

-----------------------------------------------------------------------------
(* The codec pipeline: parse, encode, decode applied to one drawn input *)

CodecIn(kind, text, slots, wire) ==
    [kind |-> kind, text |-> text, slots |-> slots, wire |-> wire]

CodecIdle ==
    /\ cpc = "idle"
    /\ cin = CodecIn("none", <<>>, <<>>, <<>>)
    /\ cslots = <<>>
    /\ cwire = <<>>

CodecStart ==
    \/ \E x \in CodecTexts :
          /\ cin = CodecIn("text", x, <<>>, <<>>)
          /\ cpc = "text" /\ cslots = <<>> /\ cwire = <<>>
    \/ \E l \in CodecSlotLists :
          /\ cin = CodecIn("slots", <<>>, l, <<>>)
          /\ cpc = "parsed" /\ cslots = l /\ cwire = <<>>
    \/ \E w \in CodecWires :
          /\ cin = CodecIn("wire", <<>>, <<>>, w)
          /\ cpc = "encoded" /\ cslots = <<>> /\ cwire = w

CodecParse ==
    /\ cpc = "text"
    /\ LET r == parse_display_string_to_slots(cin.text)
       IN  /\ cpc' = IF r.ok THEN "parsed" ELSE "raised"
           /\ cslots' = r.slots
    /\ UNCHANGED <<cin, cwire, textVars, sensorVars>>

CodecEncode ==
    /\ cpc = "parsed"
    /\ cwire' = encode_timeslots_from_list(cslots)
    /\ cpc' = "encoded"
    /\ UNCHANGED <<cin, cslots, textVars, sensorVars>>

CodecDecode ==
    /\ cpc = "encoded"
    /\ update_from_latest_data(StrVal(cwire))
    /\ cpc' = "decoded"
    /\ UNCHANGED <<cin, cslots, cwire, sensorVars>>

-----------------------------------------------------------------------------
(* sensor.py: VaillantSensorEntity *)

TankKey     == "Tank_temperature"
PressureKey == "reserved_data1"
RoomKey     == "Room_Temperature"

SensorKeys == {TankKey, PressureKey, RoomKey}

\* raw values of the data mapping: missing, a number, a str
RawAbsent == [kind |-> "absent", n |-> 0, s |-> <<>>]
RawInt(n) == [kind |-> "int", n |-> n, s |-> <<>>]
RawStr(s) == [kind |-> "str", n |-> 0, s |-> s]

\* values a sensor shows: None, a quotient num/den, or the raw value as it came
SensorNone       == [kind |-> "none", num |-> 0, den |-> 1, raw |-> RawAbsent]
Quotient(n, d)   == [kind |-> "quotient", num |-> n, den |-> d, raw |-> RawAbsent]
PassThrough(raw) == [kind |-> "raw", num |-> 0, den |-> 1, raw |-> raw]

Returned(v) == [raised |-> FALSE, value |-> v]
Raised      == [raised |-> TRUE, value |-> SensorNone]

\* line 364: (value - 32) * 5 / 9; a str operand is a TypeError
FahrenheitToCelsius(raw) ==
    IF raw.kind = "int" THEN Returned(Quotient((raw.n - 32) * 5, 9)) ELSE Raised

\* line 368: int(value, 16) / 10.0; a non-str operand is a TypeError,
\* a str that is no hex number a ValueError
HexToTenths(raw) ==
    IF raw.kind = "str" /\ PyInt(raw.s, 16).ok
    THEN Returned(Quotient(PyInt(raw.s, 16).val, 10)) ELSE Raised

\* lines 361-368: the value computed, or the exception raised on the way
Transformed(key, raw) ==
    IF raw.kind = "absent" THEN Returned(SensorNone)
    ELSE IF key = TankKey THEN FahrenheitToCelsius(raw)
    ELSE IF key = PressureKey THEN HexToTenths(raw)
    ELSE Returned(PassThrough(raw))

\* update_from_latest_data of the sensor with `key`, showing sv / sa: lines
\* 406-407 are reached only when nothing raised before them
SensorUpdateEffect(key, raw, sv, sa) ==
    LET r == Transformed(key, raw)
    IN  IF r.raised THEN [value |-> sv, available |-> sa, raised |-> TRUE]
        ELSE [value |-> r.value, available |-> r.value # SensorNone, raised |-> FALSE]

SensorLastInit ==
    [op |-> "init", key |-> RoomKey, raw |-> RawAbsent, raised |-> FALSE,
     pre_value |-> [k \in SensorKeys |-> SensorNone]]

SensorEntityInit ==
    /\ sensor_value = [k \in SensorKeys |-> SensorNone]
    /\ sensor_available \in [SensorKeys -> BOOLEAN]
    /\ slast = SensorLastInit

SensorIdle ==
    /\ sensor_value = [k \in SensorKeys |-> SensorNone]
    /\ sensor_available = [k \in SensorKeys |-> TRUE]
    /\ slast = SensorLastInit

sensor_update_from_latest_data(key, raw) ==
    \E e \in { SensorUpdateEffect(key, raw, sensor_value[key], sensor_available[key]) } :
        /\ sensor_value' = [sensor_value EXCEPT ![key] = e.value]
        /\ sensor_available' = [sensor_available EXCEPT ![key] = e.available]
        /\ slast' = [op |-> "update", key |-> key, raw |-> raw, raised |-> e.raised,
                     pre_value |-> sensor_value]

RawPool == { RawAbsent, RawInt(100), RawInt(32),
             RawStr(<<"1","9">>), RawStr(<<"0","x","1","A">>), RawStr(<<"Z","Z">>) }

-----------------------------------------------------------------------------
(* Inputs of the text entity's handlers *)

EntityGroupPool == { Sentinel, GrpA, GrpBad }

EntityWires == { g[1] \o g[2] \o g[3] : g \in [1..NumGroups -> EntityGroupPool] }

\* what the data mapping may hold under the key: nothing, a value that is no
\* str (of length 0 or 24), a str of another length, a str of 24 characters
DataPool ==
    { Absent, OtherVal(<<>>), OtherVal(GrpA \o GrpB \o Sentinel),
      StrVal(<<>>), StrVal(GrpA),
      StrVal(SubSeq(GrpA \o GrpB \o Sentinel, 1, WireLen - 1)),
      StrVal(GrpA \o GrpB \o Sentinel \o <<"0">>) }
    \cup { StrVal(w) : w \in EntityWires }

\* what a user may type: the clear tokens, texts of one to three segments
\* that parse, and texts with one segment that does not
\* texts of more than three segments, and one of separators only
SegsFourBadLast  == SegCanonA \o CommaSpace \o SegCanonB \o CommaSpace \o SegShort
                        \o CommaSpace \o SegRange
SegsFourValid    == SegCanonA \o CommaSpace \o SegCanonB \o CommaSpace \o SegShort
                        \o CommaSpace \o SegCanonB
SegsFiveBadLast  == SegsFourValid \o CommaSpace \o SegNoDash
SegsNone         == <<",", " ", ",">>

EntityTexts ==
    { <<>>, <<"0">>, <<" ", "0", " ">>, <<"N","o","n","e">>,
      SegCanonA, SegCanonB, SegZero, SegShort, SegNegZero,
      SegCanonA \o CommaSpace \o SegCanonB,
      SegCanonA \o <<",">> \o SegCanonB,
      SegZero \o CommaSpace \o SegCanonA,
      SegCanonB \o CommaSpace \o SegCanonA \o CommaSpace \o SegZero,
      SegTwoDash, SegNegEnd, SegNoColon, SegNoDash, SegRange, SegAlpha,
      SegCanonA \o CommaSpace \o SegRange,
      SegNoDash \o CommaSpace \o SegCanonA,
      SegCanonA \o CommaSpace \o SegCanonB \o CommaSpace \o SegAlpha,
      SegsFourBadLast, SegsFourValid, SegsFiveBadLast, SegsNone }

SetInputs == { Absent } \cup { StrVal(x) : x \in EntityTexts }

-----------------------------------------------------------------------------
(* Specifications *)

\* the text entity under device reports and user requests
Init == TextEntityInit /\ CodecIdle /\ SensorIdle

Update == \E val \in DataPool :
              update_from_latest_data(val) /\ UNCHANGED <<codecVars, sensorVars>>

SetValue == \E value \in SetInputs, outcome \in ControlOutcomes :
              async_set_value(value, outcome) /\ UNCHANGED <<codecVars, sensorVars>>

Next == Update \/ SetValue

Spec == Init /\ [][Next]_vars

\* the pure functions on drawn inputs
CodecInit == TextEntityInit /\ CodecStart /\ SensorIdle

CodecNext == CodecParse \/ CodecEncode \/ CodecDecode

SpecCodec == CodecInit /\ [][CodecNext]_vars

\* the sensor entities under device reports
SensorInit == TextEntityInit /\ CodecIdle /\ SensorEntityInit

SensorNext == \E key \in SensorKeys, raw \in RawPool :
                 sensor_update_from_latest_data(key, raw) /\ UNCHANGED <<textVars, codecVars>>

SpecSensor == SensorInit /\ [][SensorNext]_vars

-----------------------------------------------------------------------------
(* Properties of the codec (SpecCodec) *)

\* what the claims call a valid slot
ValidSlot(s) ==
    /\ s[1] \in 0..MaxHour /\ s[3] \in 0..MaxHour
    /\ s[2] \in 0..MaxMinute /\ s[4] \in 0..MaxMinute

ValidSlots(l) == Len(l) <= NumGroups /\ \A i \in DOMAIN l : ValidSlot(l[i])

\* the pipeline started from a slot list and ran to the decoded display
DecodedFromSlots == cpc = "decoded" /\ cin.kind = "slots"

\* C1: for every list of 0..3 slots with hours in 0..23 and minutes in 0..59
\* (all-zero slots included), decoding the encoded list gives the canonical
\* display string of the list, the one async_set_value stores.
C1_RoundTrip ==
    (DecodedFromSlots /\ ValidSlots(cin.slots))
        => native_value = CanonicalText(cin.slots)

\* the round trip does hold for the lists without an all-zero slot
RoundTripWithoutZeroSlot ==
    (DecodedFromSlots /\ ValidSlots(cin.slots)
       /\ \A i \in DOMAIN cin.slots : cin.slots[i] # <<0, 0, 0, 0>>)
        => native_value = CanonicalText(cin.slots)

IsDigit(c) == c \in Range(Digits)

TwoDigitValue(p, i) == 10 * (IndexOf(p[i], Digits) - 1) + (IndexOf(p[i + 1], Digits) - 1)

\* HH:MM-HH:MM with two digits each, hours to 23 and minutes to 59
IsDisplaySegment(p) ==
    /\ Len(p) = 11
    /\ p[3] = ":" /\ p[6] = "-" /\ p[9] = ":"
    /\ \A i \in {1, 2, 4, 5, 7, 8, 10, 11} : IsDigit(p[i])
    /\ TwoDigitValue(p, 1) <= MaxHour /\ TwoDigitValue(p, 7) <= MaxHour
    /\ TwoDigitValue(p, 4) <= MaxMinute /\ TwoDigitValue(p, 10) <= MaxMinute

\* a display string: "0", or one to three segments joined by ", "
IsDisplayString(s) ==
    \/ s = ZeroText
    \/ LET parts == Split(s, ",")
       IN  /\ Len(parts) <= NumGroups
           /\ IsDisplaySegment(parts[1])
           /\ \A i \in 2..Len(parts) :
                 /\ parts[i] # <<>> /\ Head(parts[i]) = " "
                 /\ IsDisplaySegment(Tail(parts[i]))

\* C2: a display string that parse_display_string_to_slots accepts (at most
\* 3 segments, hours in 0..23, minutes in 0..59) comes back unchanged from
\* parse, then encode, then decode.
C2_Idempotence ==
    (cpc = "decoded" /\ cin.kind = "text" /\ IsDisplayString(cin.text))
        => native_value = cin.text

\* it does come back unchanged when no segment is 00:00-00:00
IdempotenceWithoutZeroSegment ==
    (cpc = "decoded" /\ cin.kind = "text" /\ IsDisplayString(cin.text)
       /\ \A i \in DOMAIN cslots : cslots[i] # <<0, 0, 0, 0>>)
        => native_value = cin.text

ClampedTo(v, hi) == IF v < 0 THEN 0 ELSE IF v > hi THEN hi ELSE v

TwoHex(n) == << HexUpper[(n \div 16) + 1], HexUpper[(n % 16) + 1] >>

ExpectedGroup(l, i) ==
    IF i > Len(l) THEN Sentinel
    ELSE TwoHex(ClampedTo(l[i][1], MaxHour)) \o TwoHex(ClampedTo(l[i][2], MaxMinute))
         \o TwoHex(ClampedTo(l[i][3], MaxHour)) \o TwoHex(ClampedTo(l[i][4], MaxMinute))

EncodedFromSlots == cpc \in {"encoded", "decoded"} /\ cin.kind = "slots"

\* C3: for a list of integer 4-tuples of any length and any values the
\* encoder returns 24 uppercase hex characters, 3 groups of 8: group i is the
\* sentinel when the list has no slot i, else the 2-digit hex fields of slot
\* i with hours clamped into 0..23 and minutes into 0..59; slots after the
\* third are ignored.
C3_EncodeShape ==
    EncodedFromSlots =>
        /\ Len(cwire) = 24
        /\ \A i \in DOMAIN cwire : cwire[i] \in Range(HexUpper)
        /\ \A i \in 1..3 :
              SubSeq(cwire, 8 * (i - 1) + 1, 8 * i) = ExpectedGroup(cin.slots, i)

\* (25, 61, 5, 5) followed by three more slots is encoded, clamped to 23:59
C3_Witness ==
    /\ cpc = "encoded" /\ cin.kind = "slots"
    /\ Len(cin.slots) = 4
    /\ cin.slots[1] = <<25, 61, 5, 5>>
    /\ cin.slots[2] = <<-1, -5, 24, 60>>
    /\ SubSeq(cwire, 1, 16) = <<"1","7","3","B","0","5","0","5","0","0","0","0","1","7","3","B">>

CountChar(p, c) == Cardinality({i \in DOMAIN p : p[i] = c})

\* the inputs that clear the schedule without any segment being parsed
IsClearInput(text) == Strip(text) \in ClearTokens \/ Lower(Strip(text)) \in NullTokens

ParseAccepted == cin.kind = "text" /\ cpc \in {"parsed", "encoded", "decoded"}

OneDashColonEachSide(p) ==
    /\ CountChar(p, "-") = 1
    /\ Contains(SplitOnce(p, "-")[1], ":")
    /\ Contains(SplitOnce(p, "-")[2], ":")

\* C8: parse_display_string_to_slots accepts a segment only if it has
\* exactly one '-' and a ':' on each side: an input one of whose first three
\* non-empty segments has no '-' or more than one raises ValueError.
C8_ExactlyOneDash ==
    (ParseAccepted /\ ~IsClearInput(cin.text))
        => \A p \in Range(FirstThree(NonEmptyParts(Strip(cin.text)))) :
              OneDashColonEachSide(p)

\* what does hold: an accepted segment has a '-', a ':' before the first
\* '-' and a ':' after it
AcceptedHasDashAndColons ==
    (ParseAccepted /\ ~IsClearInput(cin.text))
        => \A p \in Range(FirstThree(NonEmptyParts(Strip(cin.text)))) :
              /\ Contains(p, "-")
              /\ Contains(SplitOnce(p, "-")[1], ":")
              /\ Contains(SplitOnce(p, "-")[2], ":")

HexDigitValue(c) ==
    IF c \in Range(HexUpper) THEN IndexOf(c, HexUpper) - 1 ELSE IndexOf(c, HexLower) - 1

IsHexDigit(c) == c \in Range(HexUpper) \/ c \in Range(HexLower)

AllHex(g) == \A i \in DOMAIN g : IsHexDigit(g[i])

HexPairValue(g, i) == 16 * HexDigitValue(g[i]) + HexDigitValue(g[i + 1])

\* decimal, zero-padded to two digits (three digits from 100 on)
TwoDigits(n) == IF n < 10 THEN <<"0", Digits[n + 1]>> ELSE DecStr(n)

\* start-hour, start-minute, end-hour, end-minute of an all-hex group
ShownAs(g) ==
    TwoDigits(HexPairValue(g, 1)) \o <<":">> \o TwoDigits(HexPairValue(g, 3))
    \o <<"-">> \o TwoDigits(HexPairValue(g, 5)) \o <<":">> \o TwoDigits(HexPairValue(g, 7))

\* the ranges of the groups that are neither the sentinel nor malformed
ExpectedRanges(w) ==
    LET g == [i \in 1..3 |-> SubSeq(w, 8 * (i - 1) + 1, 8 * i)]
        r == [i \in 1..3 |-> IF g[i] = Sentinel \/ ~AllHex(g[i])
                             THEN <<>> ELSE <<ShownAs(g[i])>>]
    IN  r[1] \o r[2] \o r[3]

ExpectedDisplay(w) ==
    IF ExpectedRanges(w) = <<>> THEN <<"0">> ELSE Join(ExpectedRanges(w), <<",", " ">>)

DecodedFromWire == cpc = "decoded" /\ cin.kind = "wire"

WellFormedWire(w) ==
    \A i \in 1..3 : AllHex(SubSeq(w, 8 * (i - 1) + 1, 8 * i))

ExampleWire == GrpA \o GrpB \o Sentinel

\* "07:00-09:00, 18:00-22:00"
ExampleDisplay ==
    <<"0","7",":","0","0","-","0","9",":","0","0",",", " ",
      "1","8",":","0","0","-","2","2",":","0","0">>

\* "07:00-09:00, 24:00-34:00": 0x18 is 24 and 0x22 is 34
ExampleDecoded ==
    <<"0","7",":","0","0","-","0","9",":","0","0",",", " ",
      "2","4",":","0","0","-","3","4",":","0","0">>

\* C9, as claimed: the wire 07000900 18002200 00000000 is displayed as
\* "07:00-09:00, 18:00-22:00".
C9_ExampleAsClaimed ==
    (DecodedFromWire /\ cin.wire = ExampleWire) => native_value = ExampleDisplay

\* C9, amended: the wire 07000900 18002200 00000000 is displayed as
\* "07:00-09:00, 24:00-34:00" (the fields are read in base 16), and the wire
\* 07000900 12001600 00000000 as "07:00-09:00, 18:00-22:00"; in general each
\* non-sentinel group is shown as its four 2-character hex fields in the
\* order start-hour, start-minute, end-hour, end-minute, each as a decimal
\* number zero-padded to two digits.
C9_DecodeFormat ==
    /\ (DecodedFromWire /\ cin.wire = ExampleWire) => native_value = ExampleDecoded
    /\ (DecodedFromWire /\ cin.wire = GrpA \o GrpC \o Sentinel)
          => native_value = ExampleDisplay
    /\ (DecodedFromWire /\ WellFormedWire(cin.wire))
          => native_value = ExpectedDisplay(cin.wire)

\* the example wire has been decoded
C9_Witness ==
    /\ DecodedFromWire
    /\ cin.wire = ExampleWire
    /\ native_value = ExampleDecoded

\* C10: for every 24-character string the decode does not raise, the entity
\* is available, a group with a non-hex field contributes nothing, and every
\* other non-sentinel group appears, in left-to-right order.
C10_MalformedSkipped ==
    DecodedFromWire =>
        /\ ~last.raised
        /\ available
        /\ native_value = ExpectedDisplay(cin.wire)

\* what does hold: the groups with a field int(.., 16) rejects are skipped
SkippedWhenIntRejects ==
    (DecodedFromWire /\ \A i \in 1..3 :
        LET g == SubSeq(cin.wire, 8 * (i - 1) + 1, 8 * i)
        IN  AllHex(g) \/ \E k \in {1, 3, 5, 7} : ~PyInt(SubSeq(g, k, k + 1), 16).ok)
        => /\ ~last.raised /\ available
           /\ native_value = ExpectedDisplay(cin.wire)

-----------------------------------------------------------------------------
(* Properties of the text entity (Spec) *)

\* a 24-character string none of whose groups yields a range: each is the
\* sentinel or has a field int(.., 16) rejects
NoGroupFormatted(w) ==
    \A i \in 1..3 :
        LET g == SubSeq(w, 8 * (i - 1) + 1, 8 * i)
        IN  g = Sentinel \/ \E k \in {1, 3, 5, 7} : ~PyInt(SubSeq(g, k, k + 1), 16).ok

HoldsWire(input) == input.kind = "str" /\ Len(input.s) = 24

\* C4: after update_from_latest_data the entity is available iff the data
\* holds a str of exactly 24 characters under the key; when it is not, the
\* value is None (not "0", not the previous value); when it is, the value is
\* a str, and it is "0" exactly when no group produced a formatted range.
C4_UpdateAvailability ==
    last.op = "update" =>
        /\ available <=> HoldsWire(last.input)
        /\ ~available => native_value = NoneValue
        /\ available =>
              /\ native_value # NoneValue
              /\ native_value = <<"0">> <=> NoGroupFormatted(last.input.s)

\* an entity that showed a schedule got a str of 23 or 25 characters and
\* shows None
C4_Witness ==
    /\ last.op = "update"
    /\ last.input.kind = "str" /\ Len(last.input.s) \in {23, 25}
    /\ last.pre_available /\ last.pre_value \notin {NoneValue, <<"0">>}
    /\ ~available /\ native_value = NoneValue

StateAsBefore == native_value = last.pre_value /\ available = last.pre_available

RejectedText == last.op = "set" /\ last.input.kind = "str"
                /\ ~parse_display_string_to_slots(last.input.s).ok

\* C5: when parse_display_string_to_slots rejects the user's text,
\* async_set_value does not call control_device, leaves value and
\* availability as they were, does not push the state and raises nothing.
C5_RejectedLeavesState ==
    RejectedText =>
        /\ last.calls = <<>>
        /\ StateAsBefore
        /\ ~last.pushed
        /\ ~last.raised

\* an out-of-range text was set on an entity showing a schedule
C5_Witness ==
    /\ RejectedText
    /\ last.input.s = SegCanonA \o CommaSpace \o SegRange
    /\ last.pre_available /\ last.pre_value \notin {NoneValue, <<"0">>}
    /\ native_value = last.pre_value

\* the slots async_set_value sends for an accepted text
SlotsOf(input) == parse_display_string_to_slots(input.s).slots

\* C6: async_set_value calls control_device at most once, with the mapping
\* {key: 24-character wire}; when the call returns False the value and the
\* availability stay and nothing is pushed; the value is replaced (by the
\* canonical text of the slots sent, the entity available) only after a call
\* that did not return False.
C6_ControlOutcome ==
    last.op = "set" =>
        /\ Len(last.calls) <= 1
        /\ \A i \in DOMAIN last.calls :
              /\ DOMAIN last.calls[i] = {Key}
              /\ Len(last.calls[i][Key]) = 24
              /\ last.calls[i][Key] = encode_timeslots_from_list(SlotsOf(last.input))
        /\ last.outcome = "False" => (StateAsBefore /\ ~last.pushed)
        /\ last.pushed =>
              /\ Len(last.calls) = 1
              /\ last.outcome # "False"
              /\ available
              /\ native_value = CanonicalText(SlotsOf(last.input))
        /\ ~last.pushed => StateAsBefore

\* the device rejected a valid request made on an entity showing another
\* schedule
C6_Witness ==
    /\ last.op = "set" /\ last.outcome = "False"
    /\ last.input.s = SegCanonA \o CommaSpace \o SegCanonB
    /\ Len(last.calls) = 1
    /\ last.pre_value \notin {NoneValue, <<"0">>, last.input.s}
    /\ native_value = last.pre_value

\* the last call was async_set_value on a text that is not one of the clear
\* tokens ('', '0', 'none', 'null' after trimming)
SetOfText == last.op = "set" /\ last.input.kind = "str"
             /\ ~IsClearInput(last.input.s)

\* the non-empty comma-separated segments of the user's text, trimmed
TypedSegments(text) ==
    LET raw == Split(Strip(text), ",")
    IN  SelectSeq([i \in DOMAIN raw |-> Strip(raw[i])], LAMBDA p : p # <<>>)

LeadingSegments(segs) == [i \in 1..Min(3, Len(segs)) |-> segs[i]]

\* the segment is one the loop body accepts: a '-', a ':' on each side of the
\* first '-', four fields int() reads, hours 0..23 and minutes 0..59
SegmentOk(p) == ParseSegment(p).ok

SegmentSlots(segs) == [i \in DOMAIN segs |-> ParseSegment(segs[i]).slot]

DisplaySegmentSlot(p) ==
    <<TwoDigitValue(p, 1), TwoDigitValue(p, 4), TwoDigitValue(p, 7), TwoDigitValue(p, 10)>>

Sent == last.calls # <<>>

\* C11 as claimed: async_set_value sends a wire string only if every
\* non-empty segment of the text, a fourth or later one included, is an
\* accepted time range; the slots sent are then exactly those segments in
\* input order; if any segment is not accepted nothing is sent and the value
\* and availability are unchanged.
C11_AllSegments ==
    SetOfText =>
        LET segs == TypedSegments(last.input.s)
        IN  /\ Sent => \A i \in DOMAIN segs : SegmentOk(segs[i])
            /\ last.pushed => last.slots = SegmentSlots(segs)
            /\ (\E i \in DOMAIN segs : ~SegmentOk(segs[i]))
                  => (~Sent /\ StateAsBefore)

\* C11: async_set_value sends a wire string exactly when each of the first
\* three non-empty segments of the text is accepted, whatever follows them;
\* the slots sent are those (at most three) segments in input order, with
\* the values written in them; if one of the first three is not accepted
\* nothing is sent and the value and availability are unchanged.
C11_FirstThreeAllOrNothing ==
    SetOfText =>
        LET head == LeadingSegments(TypedSegments(last.input.s))
        IN  /\ Sent <=> \A i \in DOMAIN head : SegmentOk(head[i])
            /\ Sent => last.calls[1][Key] = encode_timeslots_from_list(SegmentSlots(head))
            /\ last.pushed => last.slots = SegmentSlots(head)
            /\ (\A i \in DOMAIN head : IsDisplaySegment(head[i]))
                  => /\ Sent
                     /\ last.pushed => last.slots = [i \in DOMAIN head |-> DisplaySegmentSlot(head[i])]
            /\ (\E i \in DOMAIN head : ~SegmentOk(head[i]))
                  => (~Sent /\ StateAsBefore /\ ~last.pushed)

\* a text whose fourth segment is out of range was sent as its first three
C11_Witness ==
    /\ SetOfText
    /\ last.input.s = SegsFourBadLast
    /\ last.outcome = "True"
    /\ last.calls = <<ControlArg(<<<<7, 0, 9, 0>>, <<18, 30, 22, 5>>, <<7, 0, 9, 0>>>>)>>
    /\ last.pushed
    /\ native_value = SegCanonA \o CommaSpace \o SegCanonB \o CommaSpace \o SegCanonA
    /\ last.pre_value # native_value

\* the last call was async_set_value and its control_device call raised
ControlRaised == last.op = "set" /\ last.outcome = "Raise"

\* C12: when the control_device call of async_set_value raises, the
\* exception does not leave async_set_value and the value and availability
\* stay as they were before the call; so the value shown at any time is one
\* the device reported or one a control call that returned without error
\* carried.
C12_RaisedCallRejected ==
    /\ ControlRaised => (~last.raised /\ StateAsBefore)
    /\ native_value # NoneValue => last.vouched

\* what the handler does with a call that raised: the exception is caught
\* and the request then ends as one whose call returned None does
RaisedCallCountsAsNoValue ==
    ControlRaised =>
        /\ ~last.raised
        /\ Len(last.calls) = 1
        /\ last.pushed /\ available
        /\ native_value = CanonicalText(SlotsOf(last.input))

-----------------------------------------------------------------------------
(* Properties of the sensor entities (SpecSensor) *)

\* the transform that applies to the key succeeds on the raw value
TransformSucceeds(key, raw) ==
    IF key = TankKey THEN raw.kind = "int"
    ELSE IF key = PressureKey THEN raw.kind = "str" /\ PyInt(raw.s, 16).ok
    ELSE TRUE

HasValue(key, raw) == raw.kind # "absent" /\ TransformSucceeds(key, raw)

\* C7: after an update the sensor is available iff the data held a raw value
\* for its key and the key's transform succeeded; otherwise (invalid hex for
\* reserved_data1, a non-number for Tank_temperature included) it is
\* unavailable and shows None, never the value of an earlier update.  Stated
\* for a sensor that showed a value before the update.
C7_FailedTransformClears ==
    (slast.op = "update" /\ slast.pre_value[slast.key] # SensorNone) =>
        /\ sensor_available[slast.key] <=> HasValue(slast.key, slast.raw)
        /\ ~HasValue(slast.key, slast.raw) =>
              /\ ~sensor_available[slast.key]
              /\ sensor_value[slast.key] = SensorNone

\* what does hold: an update that returns sets both fields from the value,
\* and an update never changes another sensor
ReturnedUpdateSetsState ==
    slast.op = "update" =>
        /\ ~slast.raised =>
              /\ sensor_available[slast.key] <=> HasValue(slast.key, slast.raw)
              /\ ~sensor_available[slast.key] => sensor_value[slast.key] = SensorNone
        /\ slast.raised <=> (slast.raw.kind # "absent"
                               /\ ~TransformSucceeds(slast.key, slast.raw))
        /\ \A k \in SensorKeys \ {slast.key} : sensor_value[k] = slast.pre_value[k]

====
